---- MODULE Spec2Model ----
(***************************************************************************)
(* callsites(): capture of the current call stack through V8's             *)
(* Error.prepareStackTrace hook.                                           *)
(*                                                                         *)
(* Two variants are modelled: the "optimized" one (index.js, one cached    *)
(* handler, in-place shift(), the value of .stack returned) and the        *)
(* "original" one (index.original.js, a closure per call, slice(1), the    *)
(* result passed out through a local).  The host (V8) is modelled by what  *)
(* the two variants rely on: the process-wide slot Error.prepareStackTrace,*)
(* the frame limit Error.stackTraceLimit, and the .stack accessor of a new *)
(* error, which calls whatever hook the slot holds at that moment.         *)
(*                                                                         *)
(* Spec    : the single-threaded host; callsites() runs to completion.     *)
(* SpecMT  : two threads sharing the slot, steps interleaving freely.      *)
(***************************************************************************)
EXTENDS Naturals, Sequences, FiniteSets

\* ------------------------------------------------------------------ bounds

\* Deepest chain of user functions on the stack when callsites() is called.
MaxDepth == 2

\* Largest numeric value of Error.stackTraceLimit explored (MaxDepth + 1
\* frames are needed to capture a chain of MaxDepth plus callsites itself).
MaxLimit == 3

\* ------------------------------------------------------------------ values

\* Function values that can sit in the Error.prepareStackTrace slot.
\* id tells the closures of the original variant apart; it is 0 otherwise.
Undefined == [fn |-> "undefined", id |-> 0]

UserHooks == {[fn |-> "userHookA", id |-> 0], [fn |-> "userHookB", id |-> 0]}

\* The one arrow function allocated when index.js is loaded.
HandlerRef == [fn |-> "prepareStackTraceHandler", id |-> 0]

\* The arrow function the original variant allocates on each call.
Closure(k) == [fn |-> "closure", id |-> k]

IsClosure(h) == h.fn = "closure"

\* What code other than callsites() can store in the slot.
UserValues == UserHooks \cup {Undefined}

\* Error.stackTraceLimit: a number, or a non-number ("off"), with which V8
\* captures no stack at all.
NotANumber == [numeric |-> FALSE, n |-> 0]

Limit(n) == [numeric |-> TRUE, n |-> n]

Limits == {Limit(n) : n \in 0..MaxLimit} \cup {NotANumber}

\* Call-site descriptors (getFileName / getLineNumber / getColumnNumber).
\* The call made by the user function at nesting depth d (each function of
\* the chain sits on its own line).
UserSite(d) == [file |-> "app.js", line |-> d, column |-> 3]

\* The frame of callsites() itself: the place of `new Error()`.
SelfSite(variant) ==
    IF variant = "optimized"
    THEN [file |-> "index.js", line |-> 20, column |-> 9]
    ELSE [file |-> "index.original.js", line |-> 10, column |-> 9]

SelfSites == {SelfSite("optimized"), SelfSite("original")}

Variants == {"optimized", "original"}

\* JavaScript values that flow out of .stack and out of callsites().
ArrayVal(ref) == [kind |-> "array", ref |-> ref]
UndefinedVal == [kind |-> "undefined", ref |-> 0]
StringVal == [kind |-> "string", ref |-> 0]
UserVal == [kind |-> "userValue", ref |-> 0]
NoVal == [kind |-> "none", ref |-> 0]
RangeError == [kind |-> "RangeError", ref |-> 0]

\* Completion records of a block: how it ended and with what.
Normal(v) == [type |-> "normal", value |-> v]
Throw(e) == [type |-> "throw", value |-> e]
NoCompletion == [type |-> "none", value |-> UndefinedVal]

\* ------------------------------------------------------------------ arrays

Min(S) == CHOOSE x \in S : \A y \in S : x <= y

\* Faulty allocation: one shared array is handed out again.
FreshRef_Reused(h) == 1

\* A reference no live array has.
FreshRef(h) == Min((1..(Cardinality(DOMAIN h) + 1)) \ DOMAIN h)

Alloc(h, ref, elems) == [i \in DOMAIN h \cup {ref} |-> IF i = ref THEN elems ELSE h[i]]

\* Array.prototype.shift(): the array after the call (nothing to remove
\* from an empty array).
Shift(a) == IF a = << >> THEN << >> ELSE Tail(a)

\* Array.prototype.slice(1): a copy without the first element.
Slice1(a) == SubSeq(a, 2, Len(a))

Take(s, n) == SubSeq(s, 1, IF n < Len(s) THEN n ELSE Len(s))

\* ----------------------------------------------------------------- the hooks

\* Faulty handlers: one that removes nothing, one that removes the last
\* element (pop), one that removes two elements.
prepareStackTraceHandler_NoShift(callSites) == callSites

prepareStackTraceHandler_Pop(callSites) ==
    IF callSites = << >> THEN << >> ELSE SubSeq(callSites, 1, Len(callSites) - 1)

prepareStackTraceHandler_ShiftTwice(callSites) == Shift(Shift(callSites))

\* index.js: (_, callSites) => { callSites.shift(); return callSites; }
\* The contents of the array it returns (the array passed in, shortened).
prepareStackTraceHandler(callSites) == Shift(callSites)

\* index.original.js: callSites.slice(1), a new array.
originalHandler(callSites) == Slice1(callSites)

\* A call of the function `hook` by V8 with the raw array `rawRef`: what it
\* returns, the heap after it, and what it assigned to the enclosing
\* `result` local (the closure of the original variant only).
HookCall(hook, rawRef, h) ==
    IF hook = HandlerRef
    THEN [ret |-> ArrayVal(rawRef),
          heap |-> [h EXCEPT ![rawRef] = prepareStackTraceHandler(@)],
          assigned |-> NoVal]
    ELSE IF IsClosure(hook)
    THEN LET ref == FreshRef(h)
         IN [ret |-> ArrayVal(ref),
             heap |-> Alloc(h, ref, originalHandler(h[rawRef])),
             assigned |-> ArrayVal(ref)]
    ELSE [ret |-> UserVal, heap |-> h, assigned |-> NoVal]

\* ------------------------------------------------------------------ the host

\* The raw list V8 builds for an error constructed inside callsites():
\* the frame of callsites first, then the callers innermost-first, cut to
\* Error.stackTraceLimit frames.
RawCallSites(self, stack, limit) == Take(<<self>> \o stack, limit.n)

\* `new Error().stack` evaluated with `slot` in Error.prepareStackTrace.
\* The constructor may throw (RangeError, no stack left); with a
\* non-number limit no stack is captured and .stack is undefined; with no
\* hook V8 formats a string; otherwise V8 calls the hook in the slot,
\* synchronously, with a new array of the raw call sites.
StackAccessor(slot, limit, self, stack, h, fault) ==
    IF fault
    THEN [completion |-> Throw(RangeError), heap |-> h, invoked |-> {},
          hookRan |-> FALSE, raw |-> << >>, assigned |-> NoVal]
    ELSE IF ~limit.numeric
    THEN [completion |-> Normal(UndefinedVal), heap |-> h, invoked |-> {},
          hookRan |-> FALSE, raw |-> << >>, assigned |-> NoVal]
    ELSE IF slot = Undefined
    THEN [completion |-> Normal(StringVal), heap |-> h, invoked |-> {},
          hookRan |-> FALSE, raw |-> << >>, assigned |-> NoVal]
    ELSE LET raw == RawCallSites(self, stack, limit)
             ref == FreshRef(h)
             r == HookCall(slot, ref, Alloc(h, ref, raw))
         IN [completion |-> Normal(r.ret), heap |-> r.heap, invoked |-> {slot},
             hookRan |-> TRUE, raw |-> raw, assigned |-> r.assigned]

\* -------------------------------------------------------- steps of callsites

\* const originalPrepareStackTrace = Error.prepareStackTrace;
SavedHook(slot) == slot

\* Faulty install: a new function is allocated on each call, as the
\* original variant does.
InstalledHook_PerCall(variant, held) ==
    IF held = Closure(1) THEN Closure(2) ELSE Closure(1)

\* Faulty install: the handler is installed by the first call only.
InstalledHook_OnlyOnce(variant, held) ==
    IF held \in {HandlerRef, Closure(1), Closure(2)} THEN Undefined
    ELSE IF variant = "optimized" THEN HandlerRef ELSE Closure(1)

\* Error.prepareStackTrace = <the hook>: the cached handler, or a closure
\* allocated now (distinct from the one `held` by the previous call's record).
InstalledHook(variant, held) ==
    IF variant = "optimized" THEN HandlerRef
    ELSE IF held = Closure(1) THEN Closure(2) ELSE Closure(1)

\* Faulty install: the assignment is left out, the slot keeps what it held.
InstalledSlot_Skipped(hook, current) == current

\* The slot after Error.prepareStackTrace = hook: the hook replaces whatever
\* the slot held; the hook held before is neither kept nor chained.
InstalledSlot(hook, current) == hook

\* What the try block completes with, given how `new Error().stack` ended:
\* the optimized variant returns the value of .stack, the original one
\* drops it and returns its `result` local.
TryCompletion(variant, stackCompletion, result) ==
    IF stackCompletion.type = "throw" THEN stackCompletion
    ELSE IF variant = "optimized" THEN stackCompletion
    ELSE Normal(result)

\* Faulty restores: the slot is cleared instead of restored; the slot is
\* left as it is.
RestoredHook_Cleared(originalPrepareStackTrace, current) == Undefined

RestoredHook_Skipped(originalPrepareStackTrace, current) == current

\* finally { Error.prepareStackTrace = originalPrepareStackTrace; }
RestoredHook(originalPrepareStackTrace, current) == originalPrepareStackTrace

\* Faulty exit: a failure is swallowed (a return inside finally).
FinallyCompletion_Swallow(tryCompletion) ==
    IF tryCompletion.type = "throw" THEN Normal(UndefinedVal) ELSE tryCompletion

\* The finally block ends normally, so the try block's completion stands.
FinallyCompletion(tryCompletion) == tryCompletion

\* ------------------------------------------------------------------- state

VARIABLES
    prepareStackTrace,  \* Error.prepareStackTrace, the process-wide slot
    stackTraceLimit,    \* Error.stackTraceLimit
    callStack,          \* the frames below callsites(), innermost first
    heap,               \* the live arrays: reference -> contents
    pc,                 \* where the running callsites() is ("idle": not running)
    frame,              \* the locals of the running callsites()
    last,               \* the record of the latest callsites() call that ended
    mtSlot,             \* SpecMT: the slot the threads share
    mtInitial,          \* SpecMT: the slot before either thread's call
    mtThread            \* SpecMT: each thread's position and locals

stVars == <<prepareStackTrace, stackTraceLimit, callStack, heap, pc, frame, last>>

mtVars == <<mtSlot, mtInitial, mtThread>>

vars == <<prepareStackTrace, stackTraceLimit, callStack, heap, pc, frame, last,
          mtSlot, mtInitial, mtThread>>

NoFrame ==
    [variant |-> "none", before |-> Undefined,
     originalPrepareStackTrace |-> Undefined,
     installed |-> Undefined, result |-> NoVal, completion |-> NoCompletion,
     invoked |-> {}, hookRan |-> FALSE, raw |-> << >>, raised |-> NoVal]

NoCall ==
    [made |-> FALSE, variant |-> "none", stack |-> << >>, limit |-> NotANumber,
     prior |-> Undefined, installed |-> Undefined, invoked |-> {},
     hookRan |-> FALSE, raw |-> << >>, raised |-> NoVal,
     outcome |-> NoCompletion, snapshot |-> << >>, hookAfter |-> Undefined]

Threads == {1, 2}

MtIdle ==
    [pc |-> "idle", originalPrepareStackTrace |-> Undefined,
     completion |-> NoCompletion, snapshot |-> << >>]

\* SpecMT: the chain each thread calls callsites() from, and the limit.
MtStack(t) == <<UserSite(t)>>

MtLimit == Limit(MaxLimit)

\* The contents of the array a completion carries (empty when it carries none).
Contents(completion, h) ==
    IF completion.type = "normal" /\ completion.value.kind = "array"
    THEN h[completion.value.ref]
    ELSE << >>

IsSnapshot(completion) ==
    completion.type = "normal" /\ completion.value.kind = "array"

\* The record of the running call, once its finally block has run.
Cur ==
    [made |-> TRUE, variant |-> frame.variant, stack |-> callStack,
     limit |-> stackTraceLimit, prior |-> frame.before,
     installed |-> frame.installed, invoked |-> frame.invoked,
     hookRan |-> frame.hookRan, raw |-> frame.raw, raised |-> frame.raised,
     outcome |-> frame.completion, snapshot |-> Contents(frame.completion, heap),
     hookAfter |-> prepareStackTrace]

Init ==
    /\ prepareStackTrace = Undefined
    /\ stackTraceLimit = Limit(MaxLimit)
    /\ callStack = << >>
    /\ heap = << >>
    /\ pc = "idle"
    /\ frame = NoFrame
    /\ last = NoCall
    /\ mtSlot = Undefined
    /\ mtInitial = Undefined
    /\ mtThread = [t \in Threads |-> MtIdle]

\* ------------------------------------------------- the code around callsites

\* A user function is called: its call site becomes the innermost frame.
CallFunction ==
    /\ pc = "idle"
    /\ Len(callStack) < MaxDepth
    /\ callStack' = <<UserSite(Len(callStack) + 1)>> \o callStack
    /\ UNCHANGED <<prepareStackTrace, stackTraceLimit, heap, frame, last, pc>>
    /\ UNCHANGED mtVars

\* The innermost user function returns.
ReturnFromFunction ==
    /\ pc = "idle"
    /\ callStack # << >>
    /\ callStack' = Tail(callStack)
    /\ UNCHANGED <<prepareStackTrace, stackTraceLimit, heap, frame, last, pc>>
    /\ UNCHANGED mtVars

\* Other code installs or removes its own formatting hook.
SetPrepareStackTrace(h) ==
    /\ pc = "idle"
    /\ h # prepareStackTrace
    /\ prepareStackTrace' = h
    /\ UNCHANGED <<stackTraceLimit, callStack, heap, frame, last, pc>>
    /\ UNCHANGED mtVars

\* Other code sets Error.stackTraceLimit.
SetStackTraceLimit(l) ==
    /\ pc = "idle"
    /\ l # stackTraceLimit
    /\ stackTraceLimit' = l
    /\ UNCHANGED <<prepareStackTrace, callStack, heap, frame, last, pc>>
    /\ UNCHANGED mtVars

\* The caller empties the snapshot it was given (snapshot.length = 0).
MutateSnapshot ==
    /\ pc = "idle"
    /\ IsSnapshot(last.outcome)
    /\ heap[last.outcome.value.ref] # << >>
    /\ heap' = [heap EXCEPT ![last.outcome.value.ref] = << >>]
    /\ UNCHANGED <<prepareStackTrace, stackTraceLimit, callStack, frame, last, pc>>
    /\ UNCHANGED mtVars

\* ------------------------------------------------------------ callsites()

\* Entry: const originalPrepareStackTrace = Error.prepareStackTrace.
Enter(variant) ==
    /\ pc = "idle"
    /\ pc' = "entered"
    /\ frame' = [NoFrame EXCEPT !.variant = variant,
                                !.before = prepareStackTrace,
                                !.originalPrepareStackTrace = SavedHook(prepareStackTrace)]
    /\ UNCHANGED <<prepareStackTrace, stackTraceLimit, callStack, heap, last>>
    /\ UNCHANGED mtVars

\* try { [let result = [];] Error.prepareStackTrace = <hook>;
Install ==
    /\ pc = "entered"
    /\ pc' = "installed"
    /\ LET hook == InstalledHook(frame.variant, last.installed)
           ref == FreshRef(heap)
       IN /\ prepareStackTrace' = InstalledSlot(hook, prepareStackTrace)
          /\ IF frame.variant = "original"
             THEN /\ heap' = Alloc(heap, ref, << >>)
                  /\ frame' = [frame EXCEPT !.installed = hook, !.result = ArrayVal(ref)]
             ELSE /\ heap' = heap
                  /\ frame' = [frame EXCEPT !.installed = hook]
    /\ UNCHANGED <<stackTraceLimit, callStack, last>>
    /\ UNCHANGED mtVars

\* new Error().stack, and the end of the try block.
Materialize(fault) ==
    /\ pc = "installed"
    /\ pc' = "materialized"
    /\ LET r == StackAccessor(prepareStackTrace, stackTraceLimit,
                              SelfSite(frame.variant), callStack, heap, fault)
           result == IF r.assigned = NoVal THEN frame.result ELSE r.assigned
       IN /\ heap' = r.heap
          /\ frame' = [frame EXCEPT
                 !.result = result,
                 !.invoked = r.invoked,
                 !.hookRan = r.hookRan,
                 !.raw = r.raw,
                 !.raised = IF r.completion.type = "throw" THEN r.completion.value ELSE NoVal,
                 !.completion = TryCompletion(frame.variant, r.completion, result)]
    /\ UNCHANGED <<prepareStackTrace, stackTraceLimit, callStack, last>>
    /\ UNCHANGED mtVars

\* finally { Error.prepareStackTrace = originalPrepareStackTrace; }
Restore ==
    /\ pc = "materialized"
    /\ pc' = "restored"
    /\ prepareStackTrace' = RestoredHook(frame.originalPrepareStackTrace, prepareStackTrace)
    /\ frame' = [frame EXCEPT !.completion = FinallyCompletion(@)]
    /\ UNCHANGED <<stackTraceLimit, callStack, heap, last>>
    /\ UNCHANGED mtVars

\* The call ends: its completion reaches the caller; the arrays nothing
\* refers to any more are garbage.
Return ==
    /\ pc = "restored"
    /\ pc' = "idle"
    /\ last' = Cur
    /\ heap' = IF IsSnapshot(frame.completion)
               THEN [i \in {frame.completion.value.ref} |-> heap[i]]
               ELSE << >>
    /\ frame' = NoFrame
    /\ UNCHANGED <<prepareStackTrace, stackTraceLimit, callStack>>
    /\ UNCHANGED mtVars

Next ==
    \/ CallFunction
    \/ ReturnFromFunction
    \/ \E h \in UserValues : SetPrepareStackTrace(h)
    \/ \E l \in Limits : SetStackTraceLimit(l)
    \/ MutateSnapshot
    \/ \E variant \in Variants : Enter(variant)
    \/ Install
    \/ \E fault \in BOOLEAN : Materialize(fault)
    \/ Restore
    \/ Return

Spec == Init /\ [][Next]_vars

\* ------------------------------------------- two threads sharing the slot

\* Before either thread calls: other code sets the slot.
MtSetPrepareStackTrace(h) ==
    /\ \A t \in Threads : mtThread[t].pc = "idle"
    /\ h # mtSlot
    /\ mtSlot' = h
    /\ mtInitial' = h
    /\ UNCHANGED mtThread
    /\ UNCHANGED stVars

MtEnter(t) ==
    /\ mtThread[t].pc = "idle"
    /\ mtThread' = [mtThread EXCEPT ![t].pc = "entered",
                        ![t].originalPrepareStackTrace = SavedHook(mtSlot)]
    /\ UNCHANGED <<mtSlot, mtInitial>>
    /\ UNCHANGED stVars

MtInstall(t) ==
    /\ mtThread[t].pc = "entered"
    /\ mtSlot' = InstalledSlot(InstalledHook("optimized", Undefined), mtSlot)
    /\ mtThread' = [mtThread EXCEPT ![t].pc = "installed"]
    /\ UNCHANGED mtInitial
    /\ UNCHANGED stVars

\* new Error().stack runs the hook the slot holds now, whoever stored it.
MtMaterialize(t, fault) ==
    /\ mtThread[t].pc = "installed"
    /\ LET r == StackAccessor(mtSlot, MtLimit, SelfSite("optimized"),
                              MtStack(t), << >>, fault)
           c == TryCompletion("optimized", r.completion, NoVal)
       IN mtThread' = [mtThread EXCEPT ![t].pc = "materialized",
                           ![t].completion = c,
                           ![t].snapshot = Contents(c, r.heap)]
    /\ UNCHANGED <<mtSlot, mtInitial>>
    /\ UNCHANGED stVars

MtRestore(t) ==
    /\ mtThread[t].pc = "materialized"
    /\ mtSlot' = RestoredHook(mtThread[t].originalPrepareStackTrace, mtSlot)
    /\ mtThread' = [mtThread EXCEPT ![t].pc = "restored",
                        ![t].completion = FinallyCompletion(@)]
    /\ UNCHANGED mtInitial
    /\ UNCHANGED stVars

MtReturn(t) ==
    /\ mtThread[t].pc = "restored"
    /\ mtThread' = [mtThread EXCEPT ![t].pc = "returned"]
    /\ UNCHANGED <<mtSlot, mtInitial>>
    /\ UNCHANGED stVars

NextMT ==
    \/ \E h \in UserValues : MtSetPrepareStackTrace(h)
    \/ \E t \in Threads : MtEnter(t)
    \/ \E t \in Threads : MtInstall(t)
    \/ \E t \in Threads, fault \in BOOLEAN : MtMaterialize(t, fault)
    \/ \E t \in Threads : MtRestore(t)
    \/ \E t \in Threads : MtReturn(t)

SpecMT == Init /\ [][NextMT]_vars

\* ================================================================== claims

\* The frame of callsites() itself, in either variant.
IsSelfSite(site) == site \in SelfSites

Ended == last.made

\* C1: once a callsites() call has ended, normally or by raising, the slot
\* Error.prepareStackTrace holds the value it held immediately before the
\* call (the same user hook, or none).
C1_HookRestored == Ended => last.hookAfter = last.prior

\* A call that raised while a user hook was installed has ended.
C1_Witness ==
    /\ Ended
    /\ last.outcome.type = "throw"
    /\ last.prior \in UserHooks
    /\ last.installed # last.prior

\* C2 as stated: a call of callsites() (index.js) made from inside a
\* function F returns a sequence whose first element is F's call site and
\* which never holds the frame of callsites() itself.
C2_FirstIsCaller ==
    (Ended /\ last.variant = "optimized" /\ last.stack # << >>
       /\ IsSnapshot(last.outcome))
        => /\ last.snapshot # << >>
           /\ last.snapshot[1] = last.stack[1]
           /\ \A i \in 1..Len(last.snapshot) : ~IsSelfSite(last.snapshot[i])

\* C2 amended: when Error.stackTraceLimit is a number of at least 2, a call
\* made from inside a function F returns a sequence whose first element is
\* F's call site; and no sequence callsites() returns, under any limit, holds
\* the frame of callsites() itself.
C2_FirstIsCallerWithinLimit ==
    /\ (Ended /\ last.stack # << >> /\ last.outcome.type = "normal"
          /\ last.limit.numeric /\ last.limit.n >= 2)
        => /\ IsSnapshot(last.outcome)
           /\ last.snapshot # << >>
           /\ last.snapshot[1] = last.stack[1]
    /\ Ended => \A i \in 1..Len(last.snapshot) : ~IsSelfSite(last.snapshot[i])

\* The optimized variant returned a snapshot that starts with its caller.
C2_Witness ==
    /\ Ended
    /\ last.variant = "optimized"
    /\ last.hookRan
    /\ last.raw # << >> /\ IsSelfSite(last.raw[1])
    /\ last.snapshot # << >>
    /\ last.snapshot[1] = last.stack[1]

\* C3 as stated: a call of callsites() (index.js) from a chain of D nested
\* functions returns a snapshot of length at least D whose first D elements
\* are the D enclosing frames, innermost first.
C3_NestingDepth ==
    (Ended /\ last.variant = "optimized" /\ IsSnapshot(last.outcome))
        => \A D \in 0..Len(last.stack) :
              /\ Len(last.snapshot) >= D
              /\ \A i \in 1..D : last.snapshot[i] = last.stack[i]

\* C3 amended: the same, for every D that leaves room for the frame of
\* callsites() under the host's frame limit (Error.stackTraceLimit is a
\* number of at least D + 1).
C3_NestingDepthWithinLimit ==
    (Ended /\ last.outcome.type = "normal" /\ last.limit.numeric)
        => \A D \in 0..Len(last.stack) :
              last.limit.n >= D + 1
                 => /\ IsSnapshot(last.outcome)
                    /\ Len(last.snapshot) >= D
                    /\ \A i \in 1..D : last.snapshot[i] = last.stack[i]

\* a() called from root(): element 0 is the call inside a, element 1 the
\* call of a inside root.
C3_Witness ==
    /\ Ended
    /\ last.stack = <<UserSite(2), UserSite(1)>>
    /\ last.snapshot = <<UserSite(2), UserSite(1)>>
    /\ last.limit = Limit(3)

\* ------------------------------------------------ two calls side by side
\* The running call, once its finally block has run, is compared with the
\* latest call that ended.

BothEnded == pc = "restored" /\ last.made

SameValue(a, b) ==
    /\ a.outcome.type = b.outcome.type
    /\ a.outcome.value.kind = b.outcome.value.kind
    /\ a.snapshot = b.snapshot

\* C4: two calls of the same callsites() from the same call site with the
\* same enclosing stack (and the same host frame limit) that both return,
\* return the same thing: snapshots of equal length with equal file name,
\* line and column at each index, whatever calls were made before, whatever
\* hook was installed, and whatever the caller did to the earlier snapshot.
C4_SameSiteSameSnapshot ==
    (BothEnded /\ Cur.variant = last.variant /\ Cur.stack = last.stack
       /\ Cur.limit = last.limit
       /\ Cur.outcome.type = "normal" /\ last.outcome.type = "normal")
        => /\ SameValue(Cur, last)
           /\ Len(Cur.snapshot) = Len(last.snapshot)
           /\ \A i \in 1..Len(Cur.snapshot) :
                 /\ Cur.snapshot[i].file = last.snapshot[i].file
                 /\ Cur.snapshot[i].line = last.snapshot[i].line
                 /\ Cur.snapshot[i].column = last.snapshot[i].column

\* A second call from the same two-deep stack returns an equal snapshot.
C4_Witness ==
    /\ BothEnded
    /\ Cur.variant = "optimized" /\ last.variant = "optimized"
    /\ Cur.stack = last.stack /\ Len(Cur.stack) = 2
    /\ Cur.limit = last.limit
    /\ IsSnapshot(Cur.outcome) /\ IsSnapshot(last.outcome)
    /\ Len(Cur.snapshot) = 2

\* C5: when constructing the error or reading its stack fails inside
\* callsites(), the caller gets that same failure: not a snapshot, not
\* another failure.
C5_FailurePropagates ==
    (Ended /\ last.raised # NoVal) => last.outcome = Throw(last.raised)

\* A call in which new Error().stack raised RangeError has ended.
C5_Witness ==
    /\ Ended
    /\ last.raised = RangeError
    /\ last.outcome.type = "throw"
    /\ last.variant = "optimized"

C7_VariantsEquivalent ==
    (BothEnded /\ Cur.variant # last.variant /\ Cur.stack = last.stack
       /\ Cur.limit = last.limit /\ Cur.prior = last.prior
       /\ Cur.raised = last.raised)
        => /\ SameValue(Cur, last)
           /\ Cur.hookAfter = last.hookAfter

\* ------------------------------------------------------ threads (SpecMT)

AllReturned == \A t \in Threads : mtThread[t].pc = "returned"

\* C8: with two threads sharing the slot the design is unsafe.  Whenever
\* both calls have returned and the slot differs from what it held before
\* either call, it is the temporary hook that stayed installed, saved as
\* "the original" by a thread that entered inside the other's bracket; and
\* C8_Witness shows that such an interleaving exists.
C8_UnsafeOnlyByTemporaryHook ==
    (AllReturned /\ mtSlot # mtInitial)
        => /\ mtSlot = HandlerRef
           /\ \E t \in Threads : mtThread[t].originalPrepareStackTrace = HandlerRef

\* Both calls have returned and the temporary hook is still in the slot,
\* which held a user hook before either call started.
C8_Witness ==
    /\ AllReturned
    /\ mtInitial \in UserHooks
    /\ mtSlot = HandlerRef

\* --------------------------------------------------- run to completion

\* C9: in the single-threaded host, whenever code other than callsites()
\* and its hook can run (no call is between its entry and its return), the
\* slot holds a value stored by code other than callsites(): never the
\* temporary hook of either variant.
C9_TemporaryHookNeverObserved ==
    pc = "idle" => prepareStackTrace \in UserValues

\* Other code runs after a call that raised while its hook was installed.
C9_Witness ==
    /\ pc = "idle"
    /\ last.made
    /\ last.installed = HandlerRef
    /\ last.outcome.type = "throw"
    /\ prepareStackTrace \in UserHooks

\* C10: the hook removes exactly the first element of the raw list and
\* returns the rest unchanged, and callsites() returns exactly that list:
\* whenever V8 ran the hook on a raw list, the call returned a sequence of
\* length Len(raw) - 1 (0 for an empty raw list) whose element i is the raw
\* list's element i + 1.
C10_AllButFirst ==
    (Ended /\ last.hookRan)
        => /\ IsSnapshot(last.outcome)
           /\ Len(last.snapshot) = (IF last.raw = << >> THEN 0 ELSE Len(last.raw) - 1)
           /\ \A i \in 1..Len(last.snapshot) : last.snapshot[i] = last.raw[i + 1]

\* The handler of index.js was run on a raw list of three frames.
C10_Witness ==
    /\ Ended
    /\ last.variant = "optimized"
    /\ last.hookRan
    /\ last.invoked = {HandlerRef}
    /\ Len(last.raw) = 3
    /\ Len(last.snapshot) = 2

\* ------------------------------------------------------ the cached handler

InBracket == pc \in {"installed", "materialized"}

\* C11: every call of callsites() (index.js) installs the one function
\* allocated at module load: while a call is between its install and its
\* restore the slot holds prepareStackTraceHandler, the very function the
\* call before it had installed, and no function allocated by the call.
C11_SameHandlerEveryCall ==
    (InBracket /\ frame.variant = "optimized")
        => /\ prepareStackTrace = HandlerRef
           /\ ~IsClosure(prepareStackTrace)
           /\ (last.made /\ last.variant = "optimized")
                 => prepareStackTrace = last.installed

\* A second call of index.js is inside its bracket, after a first that ended.
C11_Witness ==
    /\ pc = "installed"
    /\ frame.variant = "optimized"
    /\ last.made /\ last.variant = "optimized"
    /\ last.installed = HandlerRef
    /\ prepareStackTrace = HandlerRef

\* ------------------------------------------------- the hook held before

\* C12: what callsites() returns does not depend on the hook installed
\* before the call.  V8 calls no function during the call but the hook the
\* call installed, so never the hook held before; and two calls of the same
\* variant from the same stack under the same limit, with new Error().stack
\* ending the same way, that differ in the hook held before (a user hook,
\* another user hook, or none) end with the same value.
C12_PriorHookIrrelevant ==
    /\ Ended => /\ last.invoked \subseteq {last.installed}
                /\ last.prior \notin last.invoked
    /\ (BothEnded /\ Cur.prior # last.prior /\ Cur.variant = last.variant
          /\ Cur.stack = last.stack /\ Cur.limit = last.limit
          /\ Cur.raised = last.raised)
        => SameValue(Cur, last)

\* A call made with a user hook installed returned the same non-empty
\* snapshot as the call before it, made from the same stack with no hook.
C12_Witness ==
    /\ BothEnded
    /\ Cur.variant = "optimized" /\ last.variant = "optimized"
    /\ last.prior = Undefined /\ Cur.prior \in UserHooks
    /\ Cur.stack = last.stack /\ Cur.stack # << >>
    /\ Cur.limit = last.limit
    /\ Cur.hookRan /\ last.hookRan
    /\ Cur.snapshot = last.snapshot /\ Cur.snapshot # << >>

====
